---- MODULE Spec2Model ----
(***************************************************************************)
(* Catalog data-access engine of sconosciute/460p2:                        *)
(*   - the migration engine (migrate / migrateFromVersion / upgrade),      *)
(*   - the rating update pipeline (PUT /books/update) over the shared pool *)
(*     and the handlers that create and delete the rows it works on.       *)
(***************************************************************************)
EXTENDS Integers, Sequences, FiniteSets, TLC

(***************************************************************************)
(* Bounds of the model                                                     *)
(***************************************************************************)
\* number of process starts (runs of migrate()) against one store
MaxRuns == 2
\* schema versions a store may be found in: 0 .. MaxVersion
MaxVersion == 6

\* number of requests the service receives in one behaviour
MaxReq == 2
\* the ids of the books table: 1 .. MaxBooks
MaxBooks == 2
\* clients of the shared pool (the pool's max, scaled down)
PoolSize == 1
MaxKeyword == 3

(***************************************************************************)
(* Program constants of the migration engine                               *)
(***************************************************************************)
\* the last case label of the switch in migrateFromVersion ("case 4")
EngineLatest == 4
\* the highest-numbered migration script of the repository (up5.sql)
Latest == 5
\* the version each script stamps into schema_version
Up1Stamp == 1
Up2Stamp == 2
Up3Stamp == 3
Up4Stamp == 4
Up5Stamp == 5

VARIABLES
    \* ---- the store's schema state ----
    relExists,   \* the relation schema_version exists
    hasRow,      \* schema_version holds a row
    dbVersion,   \* the version in that row (0 when there is none)
    tables,      \* the scripts that have been applied to the store, in order
    \* ---- one run of migrate() ----
    mpc,         \* "init" | "read" | "script" | "done"
    inCatch,     \* control is inside the catch block of migrate()
    detected,    \* the version migrate() read, -1 when none was read
    cur,         \* the script whose pool.query is in flight (0: none)
    executed,    \* the scripts this run has sent to the store, in order
    outcome,     \* "running" | "returned" | "thrown"
    startVersion,\* the store state when the run started (history)
    startTables,
    failKind,    \* the first failed store call of the run: "none" | "read" | "script"
    failedAt,    \* Len(executed) when it failed, -1 when none did
    runs         \* number of runs started

mvars == <<relExists, hasRow, dbVersion, tables, mpc, inCatch, detected, cur,
           executed, outcome, startVersion, startTables, failKind, failedAt,
           runs>>

VARIABLES
    \* ---- the catalog store ----
    books,       \* id -> row of the books table, uncommitted writes included
    bookAuthor,  \* ids of books that have book_author rows
    conn,        \* per pool client: the state of its session's transaction
    \* ---- the pool (pg Pool behind pool.query / pool.connect) ----
    idle,        \* idle clients, most recently released last
    pending,     \* requests waiting for a client, oldest first
    \* ---- the requests ----
    req,         \* per request: handler, position, arguments, responses
    received     \* number of requests received

svars == <<books, bookAuthor, conn, idle, pending, req, received>>

VARIABLES
    \* ---- one request to the open book routes (all / search) ----
    sroute,      \* the route the request came to: "none" | "all" | "search" |
                 \* "title" | "keyword"
    sorig,       \* req.query as the request came in (history)
    squery,      \* req.query as the middleware chain has rewritten it
    spc,         \* "idle" | "count" | "query" | "done"
    sstmt,       \* the statement in flight or last sent: operation, text, values
    ssent,       \* number of statements this request has sent to the store
    sresult,     \* what the store answered to sstmt (history)
    sresp        \* the responses sent, in order

qvars == <<sroute, sorig, squery, spc, sstmt, ssent, sresult, sresp>>

vars == <<mvars, svars, qvars>>

(***************************************************************************)
(* The catalog store                                                       *)
(***************************************************************************)
\* the handlers that can be running at the same time
Reqs == 1..(PoolSize + 1)
BookIds == 1..MaxBooks
Conns == 1..PoolSize
ISBNs == {"A", "B"}
RatingTypes == 1..5                      \* rating_1_star .. rating_5_star
ChangeTypes == {"increaseby", "decreaseby", "setto"}
Values == {-1, 1}

\* the response messages of PUT /books/update
MsgUpdated == "Book ratings updated successfully."
MsgNoBook == "Update incomplete: No book with this ISBN."
MsgNegative == "Update incomplete: Rating amount cannot be a negative number."
MsgGeneric == "Server or database error occurred."

\* an absent row of the books table
NoBook == [isbn |-> "", r |-> <<0, 0, 0, 0, 0>>, cnt |-> 0, avg |-> 0]

Abs(x) == IF x < 0 THEN -x ELSE x

\* ROUND(s / CAST(n AS DECIMAL), 2) of a numeric, in hundredths: the nearest
\* hundredth, a tie going away from zero
Round2(s, n) ==
    LET q == (200 * Abs(s) + Abs(n)) \div (2 * Abs(n))
    IN  IF (s < 0) = (n < 0) THEN q ELSE -q

\* the recomputation with the last bucket left out
CalcCountNoFive(row) == row.r[1] + row.r[2] + row.r[3] + row.r[4]

\* rating_1_star + rating_2_star + rating_3_star + rating_4_star + rating_5_star
CalcCount(row) == row.r[1] + row.r[2] + row.r[3] + row.r[4] + row.r[5]

\* rating_1_star + 2*rating_2_star + ... + 5*rating_5_star
Weighted(row) ==
    row.r[1] + 2 * row.r[2] + 3 * row.r[3] + 4 * row.r[4] + 5 * row.r[5]

\* the new rating_avg of a row whose rating_count is not 0
CalcAvg(row) == Round2(Weighted(row), row.cnt)

\* the SET clause with decreaseby built as an addition
NewBucketAdds(old, changetype, value) ==
    IF changetype \in {"increaseby", "decreaseby"} THEN old + value ELSE value

\* SET ratingtype = ratingtype + $1 | ratingtype - $1 | $1
NewBucket(old, changetype, value) ==
    IF changetype = "increaseby" THEN old + value
    ELSE IF changetype = "decreaseby" THEN old - value
    ELSE value

\* the rows WHERE isbn13 = isbn
Matching(b, isbn) == {id \in BookIds : b[id] # NoBook /\ b[id].isbn = isbn}

\* the books tables the service starts with (imported catalog data)
SeedStores ==
    { [id \in BookIds |->
        IF id = 1 THEN [isbn |-> "A", r |-> <<1, 0, 0, 0, 0>>, cnt |-> 1, avg |-> 100]
        ELSE NoBook],
      [id \in BookIds |->
        IF id = 1 THEN [isbn |-> "A", r |-> <<10, 20, 30, 40, 50>>, cnt |-> 150, avg |-> 367]
        ELSE NoBook] }

\* the bodies POST /books/addBook is called with: every rating field must be
\* a non-zero number, nothing relates rating_count and rating_avg to the rest
AddBookBodies ==
    { [id |-> id, isbn |-> isbn, r |-> r, cnt |-> c, avg |-> a] :
        id \in BookIds, isbn \in ISBNs,
        r \in {<<1, 1, 1, 1, 1>>, <<1, -1, 1, 1, 1>>},
        c \in {5}, a \in {450} }

\* the queries PUT /books/update is called with (after the validation chain)
UpdateQueries ==
    [isbn : ISBNs, ratingtype : RatingTypes, changetype : ChangeTypes,
     value : Values]

(***************************************************************************)
(* Sessions: what a statement does on the pool client it runs on           *)
(***************************************************************************)
NoUndo == [id \in {} |-> NoBook]

FreshConn == [tx |-> "none", owner |-> 0, undo |-> NoUndo]

\* the rows another session's open transaction has written and not committed
LockedByOther(c) ==
    UNION {DOMAIN conn[c2].undo : c2 \in {x \in Conns : x # c /\ conn[x].tx # "none"}}

\* the undo log of session c after it has written the rows ids
Logged(c, ids) ==
    IF conn[c].tx = "open"
    THEN [id \in (DOMAIN conn[c].undo) \cup ids |->
            IF id \in DOMAIN conn[c].undo THEN conn[c].undo[id] ELSE books[id]]
    ELSE conn[c].undo

\* the books table after the transaction of session c is rolled back
RolledBack(c) ==
    [id \in BookIds |-> IF id \in DOMAIN conn[c].undo THEN conn[c].undo[id]
                        ELSE books[id]]

\* the books table as the other sessions read it (READ COMMITTED)
Committed ==
    [id \in BookIds |->
        IF \E c \in Conns : conn[c].tx # "none" /\ id \in DOMAIN conn[c].undo
        THEN LET c == CHOOSE x \in Conns :
                        conn[x].tx # "none" /\ id \in DOMAIN conn[x].undo
             IN  conn[c].undo[id]
        ELSE books[id]]

\* the books table as session c reads it: its own writes, and the committed
\* rows of the others
ViewOf(c) ==
    [id \in BookIds |-> IF id \in LockedByOther(c) THEN Committed[id] ELSE books[id]]

\* BEGIN on session c by request q: [ok, conn]
DoBegin(c, q) ==
    CASE conn[c].tx = "none" ->
            [ok |-> TRUE, conn |-> [tx |-> "open", owner |-> q, undo |-> NoUndo]]
      [] conn[c].tx = "open" -> [ok |-> TRUE, conn |-> conn[c]]
      [] OTHER -> [ok |-> FALSE, conn |-> conn[c]]

\* COMMIT on session c: [books, conn]; an aborted transaction is rolled back
DoCommit(c) ==
    [books |-> IF conn[c].tx = "aborted" THEN RolledBack(c) ELSE books,
     conn |-> FreshConn]

\* a ROLLBACK that ends the transaction and restores nothing
DoRollbackKeeps(c) == [books |-> books, conn |-> FreshConn]

\* ROLLBACK on session c: [books, conn]
DoRollback(c) ==
    [books |-> IF conn[c].tx = "none" THEN books ELSE RolledBack(c),
     conn |-> FreshConn]

\* a statement of session c that writes newBooks over the rows ids, or fails
\* when fails holds: [ok, books, conn]
DoWrite(c, ids, newBooks, fails) ==
    IF conn[c].tx = "aborted" \/ fails
    THEN [ok |-> FALSE, books |-> books,
          conn |-> IF conn[c].tx = "none" THEN conn[c]
                   ELSE [conn[c] EXCEPT !.tx = "aborted"]]
    ELSE [ok |-> TRUE, books |-> newBooks,
          conn |-> [conn[c] EXCEPT !.undo = Logged(c, ids)]]

\* UPDATE books SET ratingtype = ... WHERE isbn13 = $2
StmtUpdate(c, q) ==
    LET ids == Matching(books, q.isbn)
        nb == [id \in BookIds |->
                IF id \in ids
                THEN [books[id] EXCEPT !.r[q.ratingtype] =
                        NewBucket(books[id].r[q.ratingtype], q.changetype, q.value)]
                ELSE books[id]]
    IN  DoWrite(c, ids, nb, FALSE)

\* UPDATE books SET rating_count = ... WHERE isbn13 = $1
StmtCount(c, q) ==
    LET ids == Matching(books, q.isbn)
        nb == [id \in BookIds |->
                IF id \in ids THEN [books[id] EXCEPT !.cnt = CalcCount(books[id])]
                ELSE books[id]]
    IN  DoWrite(c, ids, nb, FALSE)

\* the rating_avg UPDATE on a store that yields 0 for a division by zero
StmtAvgNoCheck(c, q) ==
    LET ids == Matching(books, q.isbn)
        nb == [id \in BookIds |->
                IF id \in ids
                THEN [books[id] EXCEPT !.avg =
                        IF books[id].cnt = 0 THEN 0 ELSE CalcAvg(books[id])]
                ELSE books[id]]
    IN  DoWrite(c, ids, nb, FALSE)

\* UPDATE books SET rating_avg = ROUND(... / CAST(rating_count AS DECIMAL(30,1)), 2)
\* WHERE isbn13 = $1: division by zero fails the statement
StmtAvg(c, q) ==
    LET ids == Matching(books, q.isbn)
        divZero == \E id \in ids : books[id].cnt = 0
        nb == [id \in BookIds |->
                IF id \in ids /\ ~divZero
                THEN [books[id] EXCEPT !.avg = CalcAvg(books[id])]
                ELSE books[id]]
    IN  DoWrite(c, ids, nb, divZero)

\* SELECT ratingtype FROM books WHERE isbn13 = $1: [ok, rows]
StmtSelect(c, q) ==
    [ok |-> conn[c].tx # "aborted",
     rows |-> {ViewOf(c)[id].r[q.ratingtype] : id \in Matching(ViewOf(c), q.isbn)},
     conn |-> conn[c]]

(***************************************************************************)
(* The pool: pool.query checks a client out for one statement              *)
(***************************************************************************)
Front(s) == SubSeq(s, 1, Len(s) - 1)

\* client c is released: the oldest waiting request gets it, else it is idle
Release(c) ==
    IF pending # <<>>
    THEN [idle |-> idle, pending |-> Tail(pending), grant |-> Head(pending)]
    ELSE [idle |-> Append(idle, c), pending |-> pending, grant |-> 0]

\* the pool as it is, no client released
NoRelease == [idle |-> idle, pending |-> pending, grant |-> 0]

\* request r asks pool p for a client when wants holds: the most recently
\* released idle client, or a place in the queue
Acquire(p, r, wants) ==
    LET got == IF wants /\ p.idle # <<>> THEN p.idle[Len(p.idle)] ELSE 0
    IN  [idle |-> IF got # 0 THEN Front(p.idle) ELSE p.idle,
         pending |-> IF wants /\ got = 0 THEN Append(p.pending, r) ELSE p.pending,
         grant |-> p.grant, got |-> got]

(***************************************************************************)
(* Requests                                                                *)
(***************************************************************************)
\* a value of req.query: absent, a string (s: its characters, or one atom
\* naming it), a string that reads as a number (n: the number), or a numeric
\* string of 13 digits (s: the atom naming it)
Absent == [k |-> "absent", s |-> <<>>, n |-> 0]
Str(s) == [k |-> "str", s |-> s, n |-> 0]
Num(n) == [k |-> "num", s |-> <<>>, n |-> n]
Isbn13(a) == [k |-> "isbn", s |-> <<a>>, n |-> 0]

NoQuery == [isbn |-> "", ratingtype |-> 1, changetype |-> "setto", value |-> 0]
NoBody == [id |-> 0, isbn |-> "", r |-> <<0, 0, 0, 0, 0>>, cnt |-> 0, avg |-> 0]

\* raw: req.query as the request came in (history); nan: Number(req.query.value)
\* is NaN; unhandled: a rejection of the handler's promise chain was caught
\* by nothing; chain, range, sends: the promise chains of a delete handler,
\* its id range and the number of its calls of res.send
NoRequest ==
    [kind |-> "none", pc |-> "idle", conn |-> 0, q |-> NoQuery, body |-> NoBody,
     err |-> "none", resp |-> <<>>, matched |-> -1, pre |-> [id \in BookIds |-> NoBook],
     raw |-> [isbn |-> Absent, ratingtype |-> Absent, changetype |-> Absent,
              value |-> Absent],
     nan |-> FALSE, unhandled |-> FALSE,
     chain |-> <<>>, range |-> <<0, 0>>, sends |-> 0]

Response(status, message) == [status |-> status, message |-> message]

\* the catch block without its 'no books' branch
ErrorMessageNoBranch(err) ==
    IF err = "negative number" THEN MsgNegative ELSE MsgGeneric

\* the catch block of PUT /books/update chooses the message by error.message
ErrorMessage(err) ==
    IF err = "no books" THEN MsgNoBook
    ELSE IF err = "negative number" THEN MsgNegative
    ELSE MsgGeneric

\* request r, whose statement on client c has completed, goes on as next says
\* (its changed fields); c is released and, unless r is done, r asks for a
\* client for its next statement
Continue(r, c, next) ==
    LET p == Acquire(Release(c), r, next.pc # "done")
    IN  /\ idle' = p.idle
        /\ pending' = p.pending
        /\ req' = [x \in Reqs |->
                    IF x = r THEN [next EXCEPT !.conn = p.got]
                    ELSE IF x = p.grant THEN [req[x] EXCEPT !.conn = c]
                    ELSE req[x]]

\* request r has its statement in flight on a client
InFlight(r, kind, pc) ==
    /\ req[r].kind = kind
    /\ req[r].pc = pc
    /\ req[r].conn # 0

\* a new request is accepted
Receive(r, kind, pc, q, body) ==
    LET p == Acquire(NoRelease, r, TRUE)
    IN  /\ received < MaxReq
        /\ req[r].pc \in {"idle", "done"}
        /\ \A x \in Reqs : x < r => req[x].pc \notin {"idle", "done"}
        /\ received' = received + 1
        /\ idle' = p.idle
        /\ pending' = p.pending
        /\ req' = [req EXCEPT ![r] =
                    [NoRequest EXCEPT !.kind = kind, !.pc = pc, !.conn = p.got,
                                      !.q = q, !.body = body, !.pre = Committed]]
        /\ UNCHANGED <<books, bookAuthor, conn>>
        /\ UNCHANGED <<mvars, qvars>>

\* no other handler is running
Alone(r) == \A x \in Reqs : req[x].pc \in {"idle", "done"}

(***************************************************************************)
(* PUT /books/update                                                       *)
(***************************************************************************)
\* the handler builds the query and calls pool.query('BEGIN')
UpdateReceive(r, q) == Receive(r, "update", "BEGIN", q, NoBody)

\* BEGIN completes; pool.query(query, [value, isbn]) is sent
UpdateBegin(r) ==
    /\ InFlight(r, "update", "BEGIN")
    /\ LET c == req[r].conn
           res == DoBegin(c, r)
       IN  /\ conn' = [conn EXCEPT ![c] = res.conn]
           /\ Continue(r, c,
                IF res.ok THEN [req[r] EXCEPT !.pc = "UPDATE"]
                ELSE [req[r] EXCEPT !.pc = "ROLLBACK", !.err = "other"])
    /\ UNCHANGED <<books, bookAuthor, received, mvars, qvars>>

\* the bucket UPDATE completes; rowCount == 0 throws 'no books', else the
\* read-back SELECT is sent
UpdateBucket(r) ==
    /\ InFlight(r, "update", "UPDATE")
    /\ LET c == req[r].conn
           q == req[r].q
           rowCount == Cardinality(Matching(books, q.isbn))
           \* a NaN value is no input for an integer column: the statement fails
           res == IF req[r].nan THEN DoWrite(c, {}, books, TRUE)
                  ELSE StmtUpdate(c, q)
       IN  /\ Matching(books, q.isbn) \cap LockedByOther(c) = {}
           /\ books' = res.books
           /\ conn' = [conn EXCEPT ![c] = res.conn]
           /\ Continue(r, c,
                IF ~res.ok THEN [req[r] EXCEPT !.pc = "ROLLBACK", !.err = "other"]
                ELSE IF rowCount = 0
                THEN [req[r] EXCEPT !.pc = "ROLLBACK", !.err = "no books",
                                    !.matched = rowCount]
                ELSE [req[r] EXCEPT !.pc = "SELECT", !.matched = rowCount])
    /\ UNCHANGED <<bookAuthor, received, mvars, qvars>>

\* the read-back completes; a value < 0 throws 'negative number', else the
\* rating_count UPDATE is sent
UpdateCheck(r) ==
    /\ InFlight(r, "update", "SELECT")
    /\ LET c == req[r].conn
           res == StmtSelect(c, req[r].q)
       IN  Continue(r, c,
                IF ~res.ok \/ res.rows = {}
                THEN [req[r] EXCEPT !.pc = "ROLLBACK", !.err = "other"]
                ELSE IF \E v \in res.rows : v < 0
                THEN [req[r] EXCEPT !.pc = "ROLLBACK", !.err = "negative number"]
                ELSE [req[r] EXCEPT !.pc = "COUNT"])
    /\ UNCHANGED <<books, bookAuthor, conn, received, mvars, qvars>>

\* the rating_count UPDATE completes; the rating_avg UPDATE is sent
UpdateCount(r) ==
    /\ InFlight(r, "update", "COUNT")
    /\ LET c == req[r].conn
           q == req[r].q
           res == StmtCount(c, q)
       IN  /\ Matching(books, q.isbn) \cap LockedByOther(c) = {}
           /\ books' = res.books
           /\ conn' = [conn EXCEPT ![c] = res.conn]
           /\ Continue(r, c,
                IF res.ok THEN [req[r] EXCEPT !.pc = "AVG"]
                ELSE [req[r] EXCEPT !.pc = "ROLLBACK", !.err = "other"])
    /\ UNCHANGED <<bookAuthor, received, mvars, qvars>>

\* the rating_avg UPDATE completes; the 200 is sent, then COMMIT
UpdateAvg(r) ==
    /\ InFlight(r, "update", "AVG")
    /\ LET c == req[r].conn
           q == req[r].q
           res == StmtAvg(c, q)
       IN  /\ Matching(books, q.isbn) \cap LockedByOther(c) = {}
           /\ books' = res.books
           /\ conn' = [conn EXCEPT ![c] = res.conn]
           /\ Continue(r, c,
                IF res.ok
                THEN [req[r] EXCEPT !.pc = "COMMIT",
                        !.resp = Append(@, Response(200, MsgUpdated))]
                ELSE [req[r] EXCEPT !.pc = "ROLLBACK", !.err = "other"])
    /\ UNCHANGED <<bookAuthor, received, mvars, qvars>>

\* COMMIT completes: the chain ends
UpdateCommit(r) ==
    /\ InFlight(r, "update", "COMMIT")
    /\ LET c == req[r].conn
           res == DoCommit(c)
       IN  /\ books' = res.books
           /\ conn' = [conn EXCEPT ![c] = res.conn]
           /\ Continue(r, c, [req[r] EXCEPT !.pc = "done"])
    /\ UNCHANGED <<bookAuthor, received, mvars, qvars>>

\* the ROLLBACK of the catch block completes; the 400 is sent. When the 200
\* has been sent already (the failure came from COMMIT) res.send throws
\* inside the catch block and nothing catches it
UpdateRollback(r) ==
    /\ InFlight(r, "update", "ROLLBACK")
    /\ LET c == req[r].conn
           res == DoRollback(c)
       IN  /\ books' = res.books
           /\ conn' = [conn EXCEPT ![c] = res.conn]
           /\ Continue(r, c,
                IF req[r].resp = <<>>
                THEN [req[r] EXCEPT !.pc = "done",
                        !.resp = Append(@, Response(400, ErrorMessage(req[r].err)))]
                ELSE [req[r] EXCEPT !.pc = "done", !.unhandled = TRUE])
    /\ UNCHANGED <<bookAuthor, received, mvars, qvars>>

\* the store call request r has in flight is rejected (connection lost,
\* timeout): pool.query rejects. A failed statement aborts the open
\* transaction; a session lost at COMMIT leaves the transaction committed or
\* rolled back, one lost at ROLLBACK leaves it rolled back. The chain goes to
\* its catch block; a rejection of the ROLLBACK inside the catch block is
\* caught by nothing and no response is sent
UpdateFails(r) ==
    /\ req[r].kind = "update"
    /\ req[r].conn # 0
    /\ req[r].pc \in {"BEGIN", "UPDATE", "SELECT", "COUNT", "AVG", "COMMIT",
                      "ROLLBACK"}
    /\ LET c == req[r].conn
           pc == req[r].pc
       IN  /\ \E applied \in BOOLEAN :
                /\ applied => pc = "COMMIT"
                /\ books' = IF pc \in {"COMMIT", "ROLLBACK"} /\ ~applied
                            THEN DoRollback(c).books ELSE books
                /\ conn' = [conn EXCEPT ![c] =
                            IF pc \in {"COMMIT", "ROLLBACK"} THEN FreshConn
                            ELSE IF @.tx = "open" THEN [@ EXCEPT !.tx = "aborted"]
                            ELSE @]
           /\ Continue(r, c,
                IF pc = "ROLLBACK"
                THEN [req[r] EXCEPT !.pc = "done", !.unhandled = TRUE]
                ELSE [req[r] EXCEPT !.pc = "ROLLBACK", !.err = "other"])
    /\ UNCHANGED <<bookAuthor, received, mvars, qvars>>

(***************************************************************************)
(* POST /books/addBook                                                     *)
(***************************************************************************)
\* the body passes the checks; pool.connect() asks for a client
AddBookReceive(r, body) == Receive(r, "addBook", "TX", NoQuery, body)

\* the transaction on the handler's own client: BEGIN, the id check, the
\* INSERTs, COMMIT (or ROLLBACK when the id exists), then client.release()
AddBook(r) ==
    /\ InFlight(r, "addBook", "TX")
    /\ LET c == req[r].conn
           b == req[r].body
           begun == DoBegin(c, r)
           exists == ViewOf(c)[b.id] # NoBook
           row == [isbn |-> b.isbn, r |-> b.r, cnt |-> b.cnt, avg |-> b.avg]
       IN  /\ b.id \notin LockedByOther(c)
           /\ IF ~begun.ok \/ exists
              THEN /\ books' = DoRollback(c).books
                   /\ bookAuthor' = bookAuthor
                   /\ Continue(r, c, [req[r] EXCEPT !.pc = "done",
                        !.resp = Append(@, IF exists /\ begun.ok
                                           THEN Response(400, "ID already exists")
                                           ELSE Response(500, "An error occurred while adding the book"))])
              ELSE /\ books' = [books EXCEPT ![b.id] = row]
                   /\ bookAuthor' = bookAuthor \cup {b.id}
                   /\ Continue(r, c, [req[r] EXCEPT !.pc = "done",
                        !.resp = Append(@, Response(201, "Success, new book was added to the database"))])
           /\ conn' = [conn EXCEPT ![c] = FreshConn]
    /\ UNCHANGED <<received, mvars, qvars>>

(***************************************************************************)
(* DELETE /books/deleteIsbn and DELETE /books/deleteRangeBooks             *)
(***************************************************************************)
\* DELETE FROM book_author WHERE book IN (SELECT id FROM books WHERE ...),
\* ids being the books the subquery selects: [books, bookAuthor]
StmtDeleteAuthors(ids) == [books |-> books, bookAuthor |-> bookAuthor \ ids]

\* the DELETE on books with a foreign key that does not cascade and is not
\* checked
StmtDeleteBooksOnly(ids) ==
    [books |-> [id \in BookIds |-> IF id \in ids THEN NoBook ELSE books[id]],
     bookAuthor |-> bookAuthor]

\* DELETE FROM books WHERE ..., ids being the rows it matches: the foreign key
\* book_author_book_fkey ... ON DELETE CASCADE removes their book_author rows
StmtDeleteBooks(ids) ==
    [books |-> [id \in BookIds |-> IF id \in ids THEN NoBook ELSE books[id]],
     bookAuthor |-> bookAuthor \ ids]

\* res.status(status).send(message) by a request in state rq: the first call
\* sends the response; a later call throws (headers already sent), the catch
\* of the chain, if one follows, calls res.send again, which throws again,
\* and the rejection is left unhandled
Sent(rq, status, message, caught) ==
    IF rq.resp = <<>>
    THEN [rq EXCEPT !.resp = <<Response(status, message)>>, !.sends = @ + 1]
    ELSE [rq EXCEPT !.sends = @ + (IF caught THEN 2 ELSE 1), !.unhandled = TRUE]

\* the handler of deleteIsbn starts its two promise chains, each with the
\* DELETE on book_author
DeleteIsbn(r, isbn) ==
    /\ received < MaxReq
    /\ req[r].pc \in {"idle", "done"}
    /\ \A x \in Reqs : x < r => req[x].pc \notin {"idle", "done"}
    /\ received' = received + 1
    /\ req' = [req EXCEPT ![r] =
                [NoRequest EXCEPT !.kind = "deleteIsbn", !.pc = "run",
                    !.q = [NoQuery EXCEPT !.isbn = isbn],
                    !.chain = <<"authors", "authors">>]]
    /\ UNCHANGED <<books, bookAuthor, conn, idle, pending, mvars, qvars>>

\* the handler of deleteRangeBooks: min > max is answered 400, else its one
\* promise chain starts
DeleteRange(r, min, max) ==
    /\ received < MaxReq
    /\ req[r].pc \in {"idle", "done"}
    /\ \A x \in Reqs : x < r => req[x].pc \notin {"idle", "done"}
    /\ received' = received + 1
    /\ req' = [req EXCEPT ![r] =
                IF min > max
                THEN Sent([NoRequest EXCEPT !.kind = "deleteRange", !.pc = "done"],
                          400, "Min range must be less than max range", FALSE)
                ELSE [NoRequest EXCEPT !.kind = "deleteRange", !.pc = "run",
                        !.range = <<min, max>>, !.chain = <<"authors">>]]
    /\ UNCHANGED <<books, bookAuthor, conn, idle, pending, mvars, qvars>>

\* the statement in flight of chain k of delete request r completes (each
\* pool.query is a transaction of its own) or is rejected. After the DELETE
\* on books the chain sends the 200. Only the second chain of deleteIsbn ends
\* in a catch, which sends the 500. When its last chain has ended the handler
\* holds its parameters no longer
DeleteStep(r, k) ==
    /\ req[r].kind \in {"deleteIsbn", "deleteRange"}
    /\ req[r].pc = "run"
    /\ k \in DOMAIN req[r].chain
    /\ req[r].chain[k] # "end"
    /\ \E fails \in BOOLEAN :
        LET ids == IF req[r].kind = "deleteIsbn"
                   THEN Matching(books, req[r].q.isbn)
                   ELSE {id \in BookIds : /\ books[id] # NoBook
                                          /\ req[r].range[1] <= id
                                          /\ id <= req[r].range[2]}
            caught == req[r].kind = "deleteIsbn" /\ k = 2
            at == req[r].chain[k]
            res == IF fails THEN [books |-> books, bookAuthor |-> bookAuthor]
                   ELSE IF at = "authors" THEN StmtDeleteAuthors(ids)
                   ELSE StmtDeleteBooks(ids)
            moved == [req[r] EXCEPT !.chain[k] =
                        IF fails \/ at = "books" THEN "end" ELSE "books"]
            answered ==
                IF fails
                THEN IF caught THEN Sent(moved, 500, "Server error, so sorry!", FALSE)
                     ELSE [moved EXCEPT !.unhandled = TRUE]
                ELSE IF at = "books"
                THEN Sent(moved, 200,
                          IF req[r].kind = "deleteIsbn"
                          THEN "Success book was deleted!."
                          ELSE "Range of books deleted!", caught)
                ELSE moved
        IN  /\ books' = res.books
            /\ bookAuthor' = res.bookAuthor
            /\ req' = [req EXCEPT ![r] =
                        IF \A j \in DOMAIN answered.chain : answered.chain[j] = "end"
                        THEN [answered EXCEPT !.pc = "done", !.q = NoQuery,
                                !.range = <<0, 0>>, !.chain = <<>>]
                        ELSE answered]
    /\ UNCHANGED <<conn, idle, pending, received, mvars, qvars>>

(***************************************************************************)
(* The service, its requests served one at a time                          *)
(***************************************************************************)
ServiceStart ==
    /\ books \in SeedStores
    /\ bookAuthor = {id \in BookIds : books[id] # NoBook}
    /\ conn = [c \in Conns |-> FreshConn]
    /\ idle = [i \in 1..PoolSize |-> i]
    /\ pending = <<>>
    /\ req = [r \in Reqs |-> NoRequest]
    /\ received = 0

\* the service before it is exposed to traffic
ServiceDown ==
    /\ books = [id \in BookIds |-> NoBook]
    /\ bookAuthor = {}
    /\ conn = [c \in Conns |-> FreshConn]
    /\ idle = [i \in 1..PoolSize |-> i]
    /\ pending = <<>>
    /\ req = [r \in Reqs |-> NoRequest]
    /\ received = 0

(***************************************************************************)
(* The open book routes: the values of req.query                           *)
(***************************************************************************)
\* a JavaScript number: an integer or NaN
JsNum(v) == [nan |-> FALSE, v |-> v]
JsNaN == [nan |-> TRUE, v |-> 0]

\* if (value): undefined and '' are falsy, every other string is truthy
Truthy(val) == val.k \in {"num", "isbn"} \/ (val.k = "str" /\ val.s # <<>>)

\* Number(value)
Number(val) ==
    CASE val.k = "num" -> JsNum(val.n)
      [] val.k = "str" /\ val.s = <<>> -> JsNum(0)
      [] OTHER -> JsNaN

\* number.toString() / String(number)
numToString(x) == IF x.nan THEN Str(<<"NaN">>) ELSE Num(x.v)

\* comparisons of JavaScript numbers: every comparison with NaN is false
JsLe(a, b) == ~a.nan /\ ~b.nan /\ a.v <= b.v
JsLt(a, b) == ~a.nan /\ ~b.nan /\ a.v < b.v

\* Math.abs
JsAbs(x) == IF x.nan THEN x ELSE JsNum(Abs(x.v))

\* validationFunctions.isNumberProvided: the value reads as a number
isNumberProvided(val) == val.k \in {"num", "isbn"}

\* validationFunctions.isStringProvided: a string of at least one character
isStringProvided(val) == val.k \in {"num", "isbn"} \/ (val.k = "str" /\ val.s # <<>>)

\* req.query of a request that carries no parameter
NoParams ==
    [q |-> Absent, isbn |-> Absent, title |-> Absent, author |-> Absent,
     min |-> Absent, max |-> Absent, orderby |-> Absent, sort |-> Absent,
     offset |-> Absent, page |-> Absent]

(***************************************************************************)
(* The open book routes: the parameter checks                              *)
(***************************************************************************)

\* a response of the open routes: books is the length of the book list it
\* carries, -1 when it carries none
Answer(status, message, n) == [status |-> status, message |-> message, books |-> n]

\* a middleware function's result: it called next(), or it sent a response
Passed(query) == [query |-> query, res |-> <<>>]
Refused(query, status, message) ==
    [query |-> query, res |-> <<Answer(status, message, -1)>>]

\* a chain of middleware functions: next is the result of the following
\* function, which runs if the one before called next()
Then(ctx, next) == IF ctx.res # <<>> THEN ctx ELSE next

validOrderby(query) ==
    LET orderby == IF query.orderby = Absent THEN Str(<<"title">>)
                   ELSE query.orderby
    IN  Passed([query EXCEPT !.orderby =
            IF orderby \in {Str(<<"title">>), Str(<<"author">>), Str(<<"year">>)}
            THEN orderby ELSE Str(<<"title">>)])

validSort(query) ==
    LET sort == IF query.sort = Absent THEN Str(<<"asc">>) ELSE query.sort
    IN  Passed([query EXCEPT !.sort =
            IF sort \in {Str(<<"asc">>), Str(<<"desc">>)}
            THEN sort ELSE Str(<<"asc">>)])

validOffset(query) ==
    LET offset == IF query.offset = Absent THEN Num(15) ELSE query.offset
        abs == JsAbs(Number(offset))
    IN  IF isNumberProvided(offset)
        THEN Passed([query EXCEPT !.offset =
                numToString(IF abs = JsNum(0) THEN JsNum(15) ELSE abs)])
        ELSE Refused(query, 400, "The offset you passed through the request is not numberic.")

\* validPage up to its pool.query: TRUE when the row count is asked for
validPageAsks(query) ==
    isNumberProvided(IF query.page = Absent THEN Num(1) ELSE query.page)

\* the .then of validPage: count is result.rows[0].count
validPageThen(query, count) ==
    LET offset == JsAbs(Number(query.offset))
        page == Number(IF query.page = Absent THEN Num(1) ELSE query.page)
        \* Math.ceil(count / offset), count >= 0 and offset > 0
        maxPage == JsNum((count + offset.v - 1) \div offset.v)
    IN  Passed([query EXCEPT !.page =
            numToString(IF JsLt(maxPage, page) THEN maxPage
                     ELSE IF JsLt(page, JsNum(1)) THEN JsNum(1)
                     ELSE page)])

validISBN(query) ==
    IF ~Truthy(query.isbn) THEN Passed(query)
    ELSE IF ~isNumberProvided(query.isbn) THEN Refused(query, 400, "Can not parse ISBN.")
    ELSE IF query.isbn.k # "isbn" THEN Refused(query, 400, "ISBN must be 13 characters.")
    ELSE Passed(query)

validTitle(query) ==
    IF ~Truthy(query.title) \/ isStringProvided(query.title)
    THEN Passed(query) ELSE Refused(query, 400, "Could not parse title.")

validAuthor(query) ==
    IF ~Truthy(query.author) \/ isStringProvided(query.author)
    THEN Passed(query) ELSE Refused(query, 400, "Could not parse author name.")

\* clamp with its bounds the wrong way round
clampSwapped(n, max, min) ==
    IF JsLe(n, max) THEN max ELSE IF JsLe(min, n) THEN min ELSE n

\* n <= min ? min : n >= max ? max : n
clamp(n, max, min) ==
    IF JsLe(n, min) THEN min ELSE IF JsLe(max, n) THEN max ELSE n

\* validMinMax: the first if fills in the defaults (or calls next() when no
\* bound is given), the second clamps and compares
\* (the 400 message names the two clamped values; they are left out here)
validMinMax(query) ==
    LET given == Truthy(query.min) \/ Truthy(query.max)
        q1 == IF given
              THEN [query EXCEPT
                      !.min = IF isNumberProvided(query.min)
                              THEN query.min ELSE Num(1),
                      !.max = IF isNumberProvided(query.max)
                              THEN query.max ELSE Num(5)]
              ELSE query
        q2 == [q1 EXCEPT
                 !.min = numToString(clamp(Number(q1.min), JsNum(5), JsNum(1))),
                 !.max = numToString(clamp(Number(q1.max), JsNum(5), JsNum(1)))]
    IN  IF Truthy(q1.min) \/ Truthy(q1.max)
           \/ (isNumberProvided(q1.min) /\ isNumberProvided(q1.max))
        THEN IF JsLt(Number(q2.max), Number(q2.min))
             THEN Refused(q2, 400, "Minimum rating must be less than or equal to maximum rating.")
             ELSE Passed(q2)
        ELSE Passed(q1)

(***************************************************************************)
(* PUT /books/update: the parameter checks in front of the handler         *)
(***************************************************************************)
validRatingType(query) ==
    LET names == {"rating_1_star", "rating_2_star", "rating_3_star",
                  "rating_4_star", "rating_5_star"}
        blank == \A i \in 1..Len(query.ratingtype.s) :
                    query.ratingtype.s[i] \in {" ", "\t", "\n", "\r"}
    IN  IF (Truthy(query.ratingtype) /\ query.ratingtype.k = "str" /\ blank)
           \/ query.ratingtype \notin {Str(<<n>>) : n \in names}
        THEN Refused(query, 400, "Invalid rating type.")
        ELSE Passed(query)

validRatingChangeType(query) ==
    LET names == {"decreaseby", "increaseby", "setto"}
        blank == \A i \in 1..Len(query.changetype.s) :
                    query.changetype.s[i] \in {" ", "\t", "\n", "\r"}
    IN  IF (Truthy(query.changetype) /\ query.changetype.k = "str" /\ blank)
           \/ query.changetype \notin {Str(<<n>>) : n \in names}
        THEN Refused(query, 400, "Invalid rating change type.")
        ELSE Passed(query)

\* req.query.value && isNaN(Number(req.query.value))
validRatingValue(query) ==
    IF Truthy(query.value) /\ Number(query.value).nan
    THEN Refused(query, 400, "Invalid value to set or change rating by.")
    ELSE Passed(query)

\* PUT /books/update arrives with req.query = raw: validISBN, validRatingType,
\* validRatingChangeType, validRatingValue, then the handler, which reads
\* its arguments (an undefined isbn is bound as NULL and matches no row) and
\* calls pool.query('BEGIN')
UpdateArrives(r, raw) ==
    LET c1 == validISBN(raw)
        c2 == Then(c1, validRatingType(c1.query))
        c3 == Then(c2, validRatingChangeType(c2.query))
        ctx == Then(c3, validRatingValue(c3.query))
        names == <<"rating_1_star", "rating_2_star", "rating_3_star",
                   "rating_4_star", "rating_5_star">>
        value == Number(raw.value)
        q == [isbn |-> IF raw.isbn.k = "isbn" THEN raw.isbn.s[1] ELSE "",
              ratingtype |-> CHOOSE i \in RatingTypes :
                                raw.ratingtype = Str(<<names[i]>>),
              changetype |-> raw.changetype.s[1],
              value |-> IF value.nan THEN 0 ELSE value.v]
        p == Acquire(NoRelease, r, ctx.res = <<>>)
    IN  /\ received < MaxReq
        /\ req[r].pc \in {"idle", "done"}
        /\ \A x \in Reqs : x < r => req[x].pc \notin {"idle", "done"}
        /\ received' = received + 1
        /\ idle' = p.idle
        /\ pending' = p.pending
        /\ req' = [req EXCEPT ![r] =
                    IF ctx.res # <<>>
                    THEN [NoRequest EXCEPT !.kind = "update", !.pc = "done",
                            !.raw = raw, !.pre = Committed,
                            !.resp = <<Response(ctx.res[1].status,
                                                ctx.res[1].message)>>]
                    ELSE [NoRequest EXCEPT !.kind = "update", !.pc = "BEGIN",
                            !.conn = p.got, !.q = q, !.raw = raw,
                            !.nan = value.nan, !.pre = Committed]]
        /\ UNCHANGED <<books, bookAuthor, conn>>
        /\ UNCHANGED <<mvars, qvars>>

(***************************************************************************)
(* The open book routes: the statements                                    *)
(***************************************************************************)
\* a piece of statement text: fixed text f, with placeholders $p[1], $p[2],
\* ... where it binds values, or the characters of a request value v pasted
\* into the text
Fixed(f) == [f |-> f, p |-> <<>>, v |-> Absent]
Bound(f, p) == [f |-> f, p |-> p, v |-> Absent]
Pasted(val) == [f |-> "", p |-> <<>>, v |-> val]

NoStmt == [op |-> "none", text |-> <<>>, values |-> <<>>, allBooks |-> FALSE]

\* String(v).charAt(0).toUpperCase() + String(v).slice(1)
Capitalized(val) ==
    LET Upper(c) == CASE c = "t" -> "T"
                      [] c = "u" -> "U"
                      [] OTHER -> c
    IN
    IF val.s = <<>> THEN val
    ELSE [val EXCEPT !.s = <<Upper(val.s[1])>> \o SubSeq(val.s, 2, Len(val.s))]

\* if (!getBooks.endsWith('WHERE')) getBooks = getBooks.concat(' AND')
WithAnd(text) ==
    IF text[Len(text)] = Fixed("WHERE") THEN text
    ELSE Append(text, Fixed("AND"))

addIsbn(st, query) ==
    IF Truthy(query.isbn)
    THEN [text |-> Append(WithAnd(st.text), Bound("isbn13 = $", <<st.count>>)),
          count |-> st.count + 1,
          values |-> Append(st.values, query.isbn)]
    ELSE st

\* the title predicate with the counter advanced by 2 for its 3 placeholders
addTitleDrift(st, query) ==
    IF Truthy(query.title)
    THEN [text |-> Append(WithAnd(st.text),
                     Bound("(title LIKE $ OR title LIKE $ OR DIFFERENCE(title, $) > 2)",
                           <<st.count, st.count + 1, st.count + 2>>)),
          count |-> st.count + 2,
          values |-> st.values \o
                     <<query.title, Capitalized(query.title), query.title>>]
    ELSE st

addTitle(st, query) ==
    IF Truthy(query.title)
    THEN [text |-> Append(WithAnd(st.text),
                     Bound("(title LIKE $ OR title LIKE $ OR DIFFERENCE(title, $) > 2)",
                           <<st.count, st.count + 1, st.count + 2>>)),
          count |-> st.count + 3,
          values |-> st.values \o
                     <<query.title, Capitalized(query.title), query.title>>]
    ELSE st

addAuthor(st, query) ==
    IF Truthy(query.author)
    THEN [text |-> Append(WithAnd(st.text), Bound("authors LIKE $", <<st.count>>)),
          count |-> st.count + 1,
          values |-> Append(st.values,
                            Str(<<"%">> \o query.author.s \o <<"%">>))]
    ELSE st

addMinMax(st, query) ==
    IF Truthy(query.min) \/ Truthy(query.max)
    THEN LET lowerLimit == IF Truthy(query.min) THEN Number(query.min)
                           ELSE JsNum(0)
             upperLimit == IF Truthy(query.max) THEN Number(query.max)
                           ELSE JsNum(5)
         IN  [text |-> Append(WithAnd(st.text),
                         Bound("rating_avg BETWEEN $ AND $",
                               <<st.count, st.count + 1>>)),
              count |-> st.count + 2,
              values |-> st.values \o
                         <<numToString(lowerLimit), numToString(upperLimit)>>]
    ELSE st

\* the last handler of GET /books/search builds the statement: with q it adds
\* nothing after WHERE ("a placeholder for keyword search")
composeSearch(query) ==
    LET st0 == [text |-> <<Fixed("getBooksAndAuthorsQuery"), Fixed("WHERE")>>,
                count |-> 1, values |-> <<>>]
        st == IF Truthy(query.q) THEN st0
              ELSE addMinMax(addAuthor(addTitle(addIsbn(st0, query), query),
                                       query), query)
    IN  [op |-> "search", text |-> st.text, values |-> st.values,
         allBooks |-> FALSE]

\* the handler of GET /books/all
composeAll(query) ==
    LET orderQuery(orderby) ==
            CASE orderby = Str(<<"title">>) -> "title "
              [] orderby = Str(<<"author">>) -> "author_table.author "
              [] OTHER -> "publication_year, title "
        offset == Number(query.offset)
        page == Number(query.page)
    IN  [op |-> "all",
         text |-> <<Fixed("getBooksAndAuthorsQuery"),
                    Bound("ORDER BY $ OFFSET $ LIMIT $;", <<1, 2, 3>>)>>,
         values |-> << Str(<<orderQuery(query.orderby)>> \o query.sort.s),
                       numToString(JsNum(offset.v * (page.v - 1))),
                       query.offset >>,
         allBooks |-> TRUE]

\* the handler of GET /books/search/title pastes the title into the text
composeTitle(query) ==
    [op |-> "title",
     text |-> << Fixed("getBooksAndAuthorsQuery"),
                 Fixed("WHERE title LIKE '"), Pasted(query.title),
                 Fixed("' OR title LIKE '"), Pasted(Capitalized(query.title)),
                 Fixed("' OR DIFFERENCE(title, '"), Pasted(query.title),
                 Fixed("') > 2 ORDER BY SIMILARITY(title, '"),
                 Pasted(query.title), Fixed("') DESC") >>,
     values |-> <<>>,
     allBooks |-> FALSE]

\* the keyword handler: the rank search, q its only value
composeKeyword(query) ==
    [op |-> "keyword",
     text |-> << Bound("SELECT *, ts_rank(kw_vec, websearch_to_tsquery('english', $)) AS rank, get_authors(id) AS authors FROM books WHERE kw_vec @@ websearch_to_tsquery('english', $) ORDER BY rank DESC",
                       <<1, 1>>) >>,
     values |-> <<query.q>>,
     allBooks |-> FALSE]

(***************************************************************************)
(* The open book routes: keyword checks and the store's answers            *)
(***************************************************************************)
LineTerminators == {"\n", "\r"}
WhiteSpace == {" ", "\t"} \cup LineTerminators

\* the character class [a-zA-Z0-9\s"-]
InClass(c) ==
    LET Letters ==
            {"a", "b", "c", "d", "e", "f", "g", "h", "i", "j", "k", "l", "m",
             "n", "o", "p", "q", "r", "s", "t", "u", "v", "w", "x", "y", "z",
             "A", "B", "C", "D", "E", "F", "G", "H", "I", "J", "K", "L", "M",
             "N", "O", "P", "Q", "R", "S", "T", "U", "V", "W", "X", "Y", "Z"}
        Digits == {"0", "1", "2", "3", "4", "5", "6", "7", "8", "9"}
    IN  c \in Letters \cup Digits \cup WhiteSpace \cup {"\"", "-"}

\* the last position of the match of ^[...]+$ that starts at position i, 0
\* when there is none: + takes characters of the class as far as they go and
\* gives back until $ matches
MatchEnd(str, i) ==
    LET ends == {e \in i..Len(str) :
                    /\ \A j \in i..e : InClass(str[j])
                    \* $ with the m flag: the end of the string or of a line
                    /\ e = Len(str) \/ str[e + 1] \in LineTerminators}
    IN  IF ends = {} THEN 0
        ELSE CHOOSE e \in ends : \A x \in ends : x <= e

\* the number of matches str.match(/^[a-zA-Z0-9\s"-]+$/gm) finds from
\* position i on (the g flag: the search resumes after each match)
RECURSIVE CountMatches(_, _)
CountMatches(str, i) ==
    IF i > Len(str) THEN 0
    \* ^ with the m flag: the start of the string or of a line
    ELSE IF (i = 1 \/ str[i - 1] \in LineTerminators) /\ MatchEnd(str, i) > 0
         THEN 1 + CountMatches(str, MatchEnd(str, i) + 1)
         ELSE CountMatches(str, i + 1)

checkQueryHasString(query) ==
    IF isStringProvided(query.q) THEN Passed(query)
    ELSE Refused(query, 400, "No query provided to search for")

\* check?.length != 1 rejects
checkQueryFormat(query) ==
    IF CountMatches(query.q.s, 1) # 1 THEN Refused(query, 400, "Malformed query")
    ELSE Passed(query)

\* what the store answers to a statement: an error or a number of rows
NoResult == [err |-> FALSE, rowCount |-> -1]
Failed == [err |-> TRUE, rowCount |-> -1]
RowsFound(n) == [err |-> FALSE, rowCount |-> n]

Rows == {id \in BookIds : books[id] # NoBook}

\* books INNER JOIN author_table: the books that have book_author rows
Joined == Rows \cap bookAuthor

CountStmt ==
    [op |-> "count", text |-> <<Fixed("SELECT COUNT(id) AS count FROM books")>>,
     values |-> <<>>, allBooks |-> FALSE]

\* the answers the store can give to the statement stmt built from query: a
\* text ending in WHERE, a negative OFFSET or a value that is no number where
\* one is needed fail; the fuzzy title and author predicates and the keyword
\* match are not evaluated, they keep every row or none
Answers(stmt, query) ==
    CASE stmt.op = "all" ->
            LET off == stmt.values[2]
                lim == stmt.values[3]
                left == Cardinality(Joined) - off.n
            IN  IF off.k # "num" \/ lim.k # "num" \/ off.n < 0 \/ lim.n < 0
                THEN {Failed}
                ELSE {RowsFound(IF left < 0 THEN 0
                                ELSE IF left < lim.n THEN left ELSE lim.n)}
      [] stmt.op = "search" ->
            LET n == Len(stmt.values)
                ranged == Truthy(query.min) \/ Truthy(query.max)
                exact == {id \in Joined :
                    /\ Truthy(query.isbn) => <<books[id].isbn>> = stmt.values[1].s
                    /\ ranged => /\ 100 * stmt.values[n - 1].n <= books[id].avg
                                 /\ books[id].avg <= 100 * stmt.values[n].n}
            IN  IF stmt.text[Len(stmt.text)] = Fixed("WHERE") THEN {Failed}
                ELSE IF ranged /\ (stmt.values[n - 1].k # "num"
                                   \/ stmt.values[n].k # "num") THEN {Failed}
                ELSE IF Truthy(query.title) \/ Truthy(query.author)
                     THEN {RowsFound(Cardinality(exact)), RowsFound(0)}
                     ELSE {RowsFound(Cardinality(exact))}
      [] stmt.op = "title" -> {RowsFound(Cardinality(Joined)), RowsFound(0)}
      [] OTHER -> {RowsFound(Cardinality(Rows)), RowsFound(0)}

\* queryAndResponse without its test of allBooks
queryAndResponseNoFlag(result, allBooks) ==
    IF result.err THEN Answer(500, "Server error.", -1)
    ELSE IF result.rowCount = 0 THEN Answer(500, "Server error - Contact Support.", -1)
    ELSE Answer(200, "", result.rowCount)

\* queryAndResponse: the .then and the .catch of its pool.query
queryAndResponse(result, allBooks) ==
    IF result.err THEN Answer(500, "Server error.", -1)
    ELSE IF allBooks /\ result.rowCount = 0 THEN Answer(500, "Server error - Contact Support.", -1)
    ELSE Answer(200, "", result.rowCount)

\* no request is being served by the open routes
SearchIdle ==
    /\ sroute = "none"
    /\ sorig = NoParams
    /\ squery = NoParams
    /\ spc = "idle"
    /\ sstmt = NoStmt
    /\ ssent = 0
    /\ sresult = NoResult
    /\ sresp = <<>>

(***************************************************************************)
(* The open book routes: the handlers                                      *)
(***************************************************************************)
\* a request comes in. The requests to these routes share nothing but the
\* store, which they only read: a behaviour follows one of them
Arrives(route, query) ==
    /\ spc = "idle"
    /\ sroute' = route
    /\ sorig' = query
    /\ UNCHANGED <<mvars, svars>>

\* the chain ended with the response of ctx, no statement was sent
Ends(ctx) ==
    /\ squery' = ctx.query
    /\ spc' = "done"
    /\ sstmt' = NoStmt
    /\ ssent' = 0
    /\ sresult' = NoResult
    /\ sresp' = ctx.res

\* the last handler hands stmt to pool.query: the n-th statement of the request
Sends(query, stmt, n) ==
    /\ squery' = query
    /\ spc' = "query"
    /\ sstmt' = stmt
    /\ ssent' = n
    /\ sresult' = NoResult
    /\ sresp' = <<>>

\* GET /books/all: validOrderby, validSort, validOffset, and validPage up to
\* its count query
AllReceive(query) ==
    /\ Arrives("all", query)
    /\ LET c1 == validOrderby(query)
           c2 == Then(c1, validSort(c1.query))
           ctx == Then(c2, validOffset(c2.query))
       IN  IF ctx.res # <<>> THEN Ends(ctx)
           ELSE IF ~validPageAsks(ctx.query)
                THEN Ends(Refused(ctx.query, 400,
                        "The page number you passed through the request is not numberic."))
                ELSE /\ squery' = ctx.query
                     /\ spc' = "count"
                     /\ sstmt' = CountStmt
                     /\ ssent' = 1
                     /\ sresult' = NoResult
                     /\ sresp' = <<>>

\* GET /books/all: the count arrives, validPage calls next() and the handler
\* sends the page query
AllCount ==
    /\ spc = "count"
    /\ LET ctx == validPageThen(squery, Cardinality(Rows))
       IN  Sends(ctx.query, composeAll(ctx.query), ssent + 1)
    /\ UNCHANGED <<sroute, sorig, mvars, svars>>

\* the parameter checks of GET /books/search, skipped when q is given: the
\* checks the second handler announces as moving into parameterChecks
searchChecks(query) ==
    IF Truthy(query.q) THEN Passed(query)
    ELSE LET c1 == validISBN(query)
             c2 == Then(c1, validTitle(c1.query))
             c3 == Then(c2, validAuthor(c2.query))
         IN  Then(c3, validMinMax(c3.query))

\* GET /books/search: Object.keys(req.query).length > 0, the checks, and the
\* handler that builds and sends the statement
SearchReceive(query) ==
    /\ Arrives("search", query)
    /\ IF {f \in DOMAIN query : query[f] # Absent} = {}
       THEN Ends(Refused(query, 400, "Search required at least one query parameter."))
       ELSE LET ctx == searchChecks(query)
            IN  IF ctx.res # <<>> THEN Ends(ctx)
                ELSE Sends(ctx.query, composeSearch(ctx.query), 1)

\* GET /books/search/title
TitleReceive(query) ==
    /\ Arrives("title", query)
    /\ IF \/ ~Truthy(query.title)
          \* String(req.query.title).trim().length == 0
          \/ \A i \in 1..Len(query.title.s) : query.title.s[i] \in WhiteSpace
       THEN Ends(Refused(query, 400, "Missing parameter - title required."))
       ELSE Sends(query, composeTitle(query), 1)

\* GET /books/search registered with checkQueryHasString, checkQueryFormat
\* and the keyword handler
KwReceive(query) ==
    /\ Arrives("keyword", query)
    /\ LET c1 == checkQueryHasString(query)
           ctx == Then(c1, checkQueryFormat(c1.query))
       IN  IF ctx.res # <<>> THEN Ends(ctx)
           ELSE Sends(ctx.query, composeKeyword(ctx.query), 1)

\* the store answers a statement sent through queryAndResponse
QueryAnswer ==
    /\ spc = "query"
    /\ sstmt.op \in {"all", "search", "title"}
    /\ \E result \in Answers(sstmt, squery) :
        /\ sresult' = result
        /\ sresp' = <<queryAndResponse(result, sstmt.allBooks)>>
    /\ spc' = "done"
    /\ UNCHANGED <<sroute, sorig, squery, sstmt, ssent, mvars, svars>>

\* the store answers the keyword handler's await pool.query
KwAnswer ==
    /\ spc = "query"
    /\ sstmt.op = "keyword"
    /\ \E result \in Answers(sstmt, squery) :
        /\ sresult' = result
        /\ sresp' = <<Answer(200, "", result.rowCount)>>
    /\ spc' = "done"
    /\ UNCHANGED <<sroute, sorig, squery, sstmt, ssent, mvars, svars>>

(***************************************************************************)
(* The migration engine                                                    *)
(***************************************************************************)
\* the errors a store call or the engine itself can raise
ErrCodes == {"42P01", "other"}

\* the version a script stamps as its last statement
Stamp(k) ==
    CASE k = 1 -> Up1Stamp
      [] k = 2 -> Up2Stamp
      [] k = 3 -> Up3Stamp
      [] k = 4 -> Up4Stamp
      [] OTHER -> Up5Stamp

\* the switch with every case label one too low
migrateFromVersionShifted(version) ==
    CASE version = 1 -> 1
      [] version = 2 -> 2
      [] version = 3 -> 3
      [] version = 4 -> 4
      [] version = 5 -> 0
      [] OTHER -> -1

\* switch (version) of migrateFromVersion: the first script it runs, 0 when
\* it breaks without running one, -1 when it throws "Unrecognized ..."
migrateFromVersion(version) ==
    CASE version = 0 -> 1
      [] version = 1 -> 2
      [] version = 2 -> 3
      [] version = 3 -> 4
      [] version = 4 -> 0
      [] OTHER -> -1

\* the fall-through of the switch after script k has been awaited
FallThrough(k) == IF k < 4 THEN k + 1 ELSE 0

\* the store states a deployment can be found in at process start
InitMigrate ==
    /\ relExists \in BOOLEAN
    /\ hasRow \in BOOLEAN
    /\ dbVersion \in 0..MaxVersion
    /\ (~relExists => ~hasRow)
    /\ (hasRow <=> dbVersion > 0)
    /\ tables = [i \in 1..dbVersion |-> i]
    /\ mpc = "init"
    /\ inCatch = FALSE
    /\ detected = -1
    /\ cur = 0
    /\ executed = <<>>
    /\ outcome = "running"
    /\ startVersion = dbVersion
    /\ startTables = tables
    /\ failKind = "none"
    /\ failedAt = -1
    /\ runs = 0
    /\ ServiceDown
    /\ SearchIdle

StoreUnchanged == UNCHANGED <<relExists, hasRow, dbVersion, tables>>

\* migrate() is called: pool.query('SELECT * FROM schema_version') is sent
migrate ==
    /\ mpc \in {"init", "done"}
    /\ UNCHANGED <<svars, qvars>>
    /\ runs < MaxRuns
    /\ runs' = runs + 1
    /\ mpc' = "read"
    /\ inCatch' = FALSE
    /\ detected' = -1
    /\ cur' = 0
    /\ executed' = <<>>
    /\ outcome' = "running"
    /\ startVersion' = dbVersion
    /\ startTables' = tables
    /\ failKind' = "none"
    /\ failedAt' = -1
    /\ StoreUnchanged

\* control enters migrateFromVersion(v) with the given catch flag
Enter(v, catch) ==
    LET first == migrateFromVersion(v) IN
    /\ inCatch' = catch
    /\ IF first > 0
       THEN /\ mpc' = "script"
            /\ cur' = first
            /\ executed' = Append(executed, first)
            /\ outcome' = outcome
       ELSE /\ mpc' = "done"
            /\ cur' = 0
            /\ executed' = executed
            /\ outcome' = IF first = 0 THEN "returned"
                          ELSE IF catch THEN "thrown" ELSE "returned"

\* an error err reaches the try/catch of migrate() (or leaves the catch)
Raise(err) ==
    IF inCatch
    THEN /\ mpc' = "done" /\ cur' = 0 /\ outcome' = "thrown"
         /\ UNCHANGED <<inCatch, executed>>
    ELSE IF err = "42P01"
         THEN Enter(0, TRUE)
         ELSE /\ mpc' = "done" /\ cur' = 0 /\ outcome' = "returned"
              /\ UNCHANGED <<inCatch, executed>>

\* records the first failed store call of the run
NoteFailure(kind) ==
    IF failKind = "none"
    THEN failKind' = kind /\ failedAt' = Len(executed)
    ELSE UNCHANGED <<failKind, failedAt>>

\* the version read completes
ReadVersion ==
    /\ mpc = "read"
    /\ UNCHANGED <<svars, qvars>>
    /\ StoreUnchanged
    /\ UNCHANGED <<startVersion, startTables, failKind, failedAt, runs>>
    /\ \/ /\ ~relExists
          /\ detected' = 0
          /\ Raise("42P01")
       \/ /\ relExists /\ ~hasRow
          /\ detected' = -1
          /\ Raise("nocode")
       \/ /\ relExists /\ hasRow
          /\ detected' = dbVersion
          /\ Enter(dbVersion, FALSE)

\* the version read fails for another reason (connection, permission, ...)
ReadFails ==
    /\ mpc = "read"
    /\ UNCHANGED <<svars, qvars>>
    /\ StoreUnchanged
    /\ UNCHANGED <<startVersion, startTables, runs>>
    /\ NoteFailure("read")
    /\ detected' = -1
    /\ Raise("other")

\* upgrade(upNPath): the script in flight is applied as one statement batch
upgrade ==
    /\ mpc = "script"
    /\ UNCHANGED <<svars, qvars>>
    /\ relExists' = TRUE
    /\ hasRow' = TRUE
    /\ dbVersion' = Stamp(cur)
    /\ tables' = Append(tables, cur)
    /\ UNCHANGED <<inCatch, detected, startVersion, startTables, failKind,
                   failedAt, runs>>
    /\ IF FallThrough(cur) > 0
       THEN /\ mpc' = "script"
            /\ cur' = FallThrough(cur)
            /\ executed' = Append(executed, FallThrough(cur))
            /\ outcome' = outcome
       ELSE /\ mpc' = "done"
            /\ cur' = 0
            /\ executed' = executed
            /\ outcome' = "returned"

\* upgrade(upNPath): the script in flight fails, the batch is rolled back
upgradeFails ==
    /\ mpc = "script"
    /\ UNCHANGED <<svars, qvars>>
    /\ StoreUnchanged
    /\ UNCHANGED <<detected, startVersion, startTables, runs>>
    /\ NoteFailure("script")
    /\ \E err \in ErrCodes : Raise(err)

NextMigrate ==
    \/ migrate
    \/ ReadVersion
    \/ ReadFails
    \/ upgrade
    \/ upgradeFails

SpecMigrate == InitMigrate /\ [][NextMigrate]_vars

\* the store after the migrations have run
Migrated ==
    /\ relExists = TRUE
    /\ hasRow = TRUE
    /\ dbVersion = EngineLatest
    /\ tables = [i \in 1..EngineLatest |-> i]
    /\ mpc = "done"
    /\ inCatch = FALSE
    /\ detected = EngineLatest
    /\ cur = 0
    /\ executed = <<>>
    /\ outcome = "returned"
    /\ startVersion = EngineLatest
    /\ startTables = tables
    /\ failKind = "none"
    /\ failedAt = -1
    /\ runs = 1

SeqUpdate == \E r \in Reqs, q \in UpdateQueries : Alone(r) /\ UpdateReceive(r, q)
SeqAddBook == \E r \in Reqs, b \in AddBookBodies : Alone(r) /\ AddBookReceive(r, b)
StepBegin == \E r \in Reqs : UpdateBegin(r)
StepBucket == \E r \in Reqs : UpdateBucket(r)
StepCheck == \E r \in Reqs : UpdateCheck(r)
StepCount == \E r \in Reqs : UpdateCount(r)
StepAvg == \E r \in Reqs : UpdateAvg(r)
StepCommit == \E r \in Reqs : UpdateCommit(r)
StepRollback == \E r \in Reqs : UpdateRollback(r)
StepAddBook == \E r \in Reqs : AddBook(r)

InitSeq == Migrated /\ ServiceStart /\ SearchIdle

NextSeq ==
    \/ SeqUpdate
    \/ SeqAddBook
    \/ StepBegin
    \/ StepBucket
    \/ StepCheck
    \/ StepCount
    \/ StepAvg
    \/ StepCommit
    \/ StepRollback
    \/ StepAddBook

\* the service with its requests served one at a time
SpecSeq == InitSeq /\ [][NextSeq]_vars

(***************************************************************************)
(* The service under concurrent rating updates                             *)
(***************************************************************************)
\* the queries of the concurrent clients
ConcQueries ==
    [isbn : {"A"}, ratingtype : {1, 2}, changetype : ChangeTypes, value : Values]

ConcUpdate == \E r \in Reqs, q \in ConcQueries : UpdateReceive(r, q)

NextConc ==
    \/ ConcUpdate
    \/ StepBegin
    \/ StepBucket
    \/ StepCheck
    \/ StepCount
    \/ StepAvg
    \/ StepCommit
    \/ StepRollback

\* rating updates arriving while others are being served
SpecConc == InitSeq /\ [][NextConc]_vars

(***************************************************************************)
(* Rating updates arriving unchecked at a store whose calls can fail       *)
(***************************************************************************)
\* the requests PUT /books/update is called with
RawUpdate ==
    \E r \in Reqs :
        \E raw \in
            [isbn : {Absent, Isbn13("A"), Str(<<"x">>)},
             ratingtype : {Absent, Str(<<"rating_1_star">>), Str(<<"stars">>)},
             changetype : {Absent, Str(<<"decreaseby">>), Str(<<"setto">>),
                           Str(<<"bogus">>)},
             value : {Absent, Num(1), Num(2), Str(<<"x">>)}] :
            Alone(r) /\ UpdateArrives(r, raw)

StepFails == \E r \in Reqs : UpdateFails(r)

NextFault ==
    \/ RawUpdate
    \/ StepBegin
    \/ StepBucket
    \/ StepCheck
    \/ StepCount
    \/ StepAvg
    \/ StepCommit
    \/ StepRollback
    \/ StepFails

\* rating updates served one at a time, any store call may fail
SpecFault == InitSeq /\ [][NextFault]_vars

(***************************************************************************)
(* Deletions and insertions arriving together                              *)
(***************************************************************************)
NextDelete ==
    \/ \E r \in Reqs, isbn \in ISBNs : DeleteIsbn(r, isbn)
    \/ \E r \in Reqs, min \in BookIds, max \in BookIds : DeleteRange(r, min, max)
    \/ \E r \in Reqs, k \in 1..2 : DeleteStep(r, k)
    \/ \E r \in Reqs, b \in AddBookBodies :
            b.r = <<1, 1, 1, 1, 1>> /\ AddBookReceive(r, b)
    \/ StepAddBook

\* delete and addBook requests served while others are running
SpecDelete == InitSeq /\ [][NextDelete]_vars

(***************************************************************************)
(* The open book routes under requests from bounded sets                   *)
(***************************************************************************)
\* the stores the routes are run against: empty, books 1..n with their
\* authors, and one book that has no book_author row
SearchStart ==
    LET row(id) == IF id = 1
                   THEN [isbn |-> "A", r |-> <<1, 0, 0, 0, 0>>, cnt |-> 1, avg |-> 100]
                   ELSE [isbn |-> "B", r |-> <<10, 20, 30, 40, 50>>, cnt |-> 150, avg |-> 367]
        upTo(n) == [id \in BookIds |-> IF id <= n THEN row(id) ELSE NoBook]
        SearchStores ==
            {[books |-> upTo(n), bookAuthor |-> 1..n] : n \in 0..MaxBooks}
            \cup {[books |-> upTo(1), bookAuthor |-> {}]}
    IN
    /\ \E st \in SearchStores : books = st.books /\ bookAuthor = st.bookAuthor
    /\ conn = [c \in Conns |-> FreshConn]
    /\ idle = [i \in 1..PoolSize |-> i]
    /\ pending = <<>>
    /\ req = [r \in Reqs |-> NoRequest]
    /\ received = 0


\* the requests GET /books/all is called with
GetAll ==
    \E query \in
        { [NoParams EXCEPT !.orderby = o, !.sort = d, !.offset = f, !.page = g] :
            o \in {Absent, Str(<<"author">>), Str(<<"bogus">>)},
            d \in {Absent, Str(<<"desc">>)},
            f \in {Absent, Num(0), Num(-2), Num(1), Str(<<"x">>)},
            g \in {Absent, Num(0), Num(2), Num(3), Str(<<"x">>)} } :
        AllReceive(query)

\* the requests GET /books/search is called with
Search ==
    \E query \in
        { [NoParams EXCEPT !.q = k, !.isbn = i, !.title = t, !.author = a,
                           !.min = lo, !.max = hi, !.page = g] :
            k \in {Absent, Str(<<"a">>)},
            i \in {Absent, Isbn13("A"), Str(<<"x">>)},
            t \in {Absent, Str(<<"t">>)},
            a \in {Absent, Str(<<"u">>)},
            lo \in {Absent, Num(0), Num(3), Num(7)},
            hi \in {Absent, Num(2), Num(6), Str(<<"x">>)},
            g \in {Absent, Num(2)} } :
        SearchReceive(query)

\* the requests GET /books/search/title is called with
SearchTitle ==
    \E query \in
        { [NoParams EXCEPT !.title = t] :
            t \in {Absent, Str(<<" ">>), Str(<<"t">>), Str(<<"u">>),
                   Str(<<"'", ";", "-", "-">>)} } :
        TitleReceive(query)

\* the requests the keyword route is called with: q absent or any string of
\* up to MaxKeyword characters, with or without another filter
KwSearch ==
    \E query \in
        { [NoParams EXCEPT !.q = k, !.isbn = i] :
            k \in {Absent} \cup
                  {Str(w) : w \in UNION {[1..n -> {"a", "\n", "<"}] : n \in 0..MaxKeyword}},
            i \in {Absent, Isbn13("A")} } :
        KwReceive(query)

InitSearch == Migrated /\ SearchStart /\ SearchIdle

NextSearch ==
    \/ GetAll
    \/ AllCount
    \/ Search
    \/ SearchTitle
    \/ KwSearch
    \/ QueryAnswer
    \/ KwAnswer

\* the open routes serving requests one at a time
SpecSearch == InitSearch /\ [][NextSearch]_vars

(***************************************************************************)
(* Migration engine: properties                                            *)
(***************************************************************************)
\* the scripts v+1, v+2, ..., Latest in ascending order
ScriptsAfter(v) == [i \in 1..(Latest - v) |-> v + i]

\* C7: from any detected version v in 0..Latest (0: the relation does not
\* exist), a run of migrate() in which no store call fails executes exactly
\* the scripts v+1..Latest in ascending order and ends with the stored
\* version equal to Latest, the highest-numbered migration script.
C7_AllScriptsToLatest ==
    (mpc = "done" /\ detected \in 0..Latest /\ failKind = "none")
        => (executed = ScriptsAfter(detected) /\ dbVersion = Latest)

\* C8: when the detected version is greater than the highest script the
\* engine knows, migrate() executes no script, leaves the store unchanged and
\* its failure propagates to the caller.
C8_FutureVersionFatal ==
    (mpc = "done" /\ detected > EngineLatest)
        => /\ executed = <<>>
           /\ dbVersion = startVersion /\ tables = startTables
           /\ outcome = "thrown"

\* C9: when the detected version already is the latest one (the last version
\* the engine knows, or the highest-numbered script), migrate() executes no
\* script and leaves the schema_version record and the tables unchanged.
C9_LatestIsNoOp ==
    (mpc \in {"script", "done"} /\ detected \in {EngineLatest, Latest})
        => /\ executed = <<>>
           /\ dbVersion = startVersion /\ tables = startTables
           /\ relExists /\ hasRow

C9_Witness ==
    mpc = "done" /\ detected = EngineLatest /\ executed = <<>> /\ runs = 2

\* C10: when the version read fails with an error other than 42P01, or when
\* an upgrade script fails, no further script is executed and the error
\* propagates out of migrate().
C10_FailureAbortsStartup ==
    (mpc = "done" /\ failKind # "none")
        => (outcome = "thrown" /\ Len(executed) = failedAt)

(***************************************************************************)
(* Rating update pipeline: properties                                      *)
(***************************************************************************)
Updates == {r \in Reqs : req[r].kind = "update"}

\* the update of handler r has run to its end and was acknowledged
Succeeded(r) ==
    /\ req[r].kind = "update"
    /\ req[r].pc = "done"
    /\ req[r].resp = <<Response(200, MsgUpdated)>>

\* the update of handler r has run to its end and was answered with message
Rejected(r, message) ==
    /\ req[r].pc = "done"
    /\ req[r].resp = <<Response(400, message)>>

RECURSIVE SumTo(_, _)
SumTo(b, i) == IF i = 0 THEN 0 ELSE b[i] + SumTo(b, i - 1)

RECURSIVE WeightedTo(_, _)
WeightedTo(b, i) == IF i = 0 THEN 0 ELSE i * b[i] + WeightedTo(b, i - 1)

\* a (in hundredths) is s / n rounded to two decimals, a tie away from zero
IsRounded(a, s, n) ==
    /\ 2 * Abs(100 * s - a * n) <= Abs(n)
    /\ 2 * Abs(100 * s - a * n) = Abs(n) => Abs(a) * Abs(n) > 100 * Abs(s)

\* the value the request of handler r gives the targeted bucket of row
Target(r, row) ==
    LET old == row.r[req[r].q.ratingtype]
        v == req[r].q.value
    IN  CASE req[r].q.changetype = "increaseby" -> old + v
          [] req[r].q.changetype = "decreaseby" -> old - v
          [] OTHER -> v

\* the rows the request of handler r named when it was received
Named(r) == Matching(req[r].pre, req[r].q.isbn)

\* C1: after a rating update that completed successfully, every row with the
\* given ISBN has rating_count equal to the sum of its five buckets and
\* rating_avg equal to round(sum of i * bucket_i / rating_count, 2).
C1_DerivedFieldsRecomputed ==
    \A r \in Reqs : Succeeded(r) =>
        \A id \in Matching(books, req[r].q.isbn) :
            /\ books[id].cnt = SumTo(books[id].r, 5)
            /\ books[id].cnt # 0
            /\ IsRounded(books[id].avg, WeightedTo(books[id].r, 5), books[id].cnt)

C1_Witness ==
    \E r \in Reqs :
        /\ Succeeded(r)
        /\ req[r].matched = 2
        /\ \E id \in Named(r) : req[r].pre[id].cnt # SumTo(req[r].pre[id].r, 5)
        /\ \E id \in Named(r) : books[id].avg \notin {100, 200, 300, 400, 500}

\* C2: a rating update that would drive a bucket negative is answered with
\* the negative-result error and leaves the buckets, rating_count and
\* rating_avg of every book as they were before the request.
C2_NegativeRolledBack ==
    \A r \in Updates :
        (req[r].pc = "done" /\ \E id \in Named(r) : Target(r, req[r].pre[id]) < 0)
            => (Rejected(r, MsgNegative) /\ books = req[r].pre)

C2_Witness ==
    \E r \in Updates :
        /\ Rejected(r, MsgNegative)
        /\ req[r].matched = 2
        /\ req[r].q.changetype = "decreaseby"
        /\ books = req[r].pre

\* C3: a rating update whose ISBN matches no book changes no row of the
\* store and is answered 'Update incomplete: No book with this ISBN.'.
C3_UnknownIsbnUntouched ==
    \A r \in Updates : Named(r) = {} =>
        /\ books = req[r].pre
        /\ req[r].pc = "done" => Rejected(r, MsgNoBook)

C3_Witness ==
    \E r \in Updates :
        /\ Named(r) = {}
        /\ Rejected(r, MsgNoBook)
        /\ req[r].matched = 0
        /\ received = 2

\* C5: a rating update goes past the row-match check only when the ISBN
\* matched exactly one row; when it matched none or more than one, it is
\* answered with the unknown-identifier error and no row is changed.
C5_ExactlyOneRow ==
    \A r \in Updates :
        /\ req[r].pc \in {"SELECT", "COUNT", "AVG", "COMMIT"} => req[r].matched = 1
        /\ (req[r].pc = "done" /\ req[r].matched \notin {-1, 1})
                => (Rejected(r, MsgNoBook) /\ books = req[r].pre)

\* C6: after a successful rating update all five buckets of the touched rows
\* are >= 0, and an update that leaves any of the five negative is answered
\* with the negative-result error.
C6_AllBucketsChecked ==
    \A r \in Updates :
        /\ Succeeded(r) =>
            \A id \in Matching(books, req[r].q.isbn) :
                \A i \in RatingTypes : books[id].r[i] >= 0
        /\ (req[r].pc = "done" /\ \E id \in Named(r) : \E i \in RatingTypes :
                (IF i = req[r].q.ratingtype THEN Target(r, req[r].pre[id])
                 ELSE req[r].pre[id].r[i]) < 0)
            => Rejected(r, MsgNegative)

\* C4: all statements of one rating update run inside one transaction on one
\* pool connection, the one its BEGIN opened; under any interleaving no other
\* request sees a bucket changed while rating_count / rating_avg are not yet
\* recomputed, and a ROLLBACK undoes only the request's own transaction.
C4_OneTransaction ==
    /\ \A r \in Updates :
        (req[r].conn # 0 /\ req[r].pc \in {"UPDATE", "SELECT", "COUNT", "AVG", "COMMIT"})
            => (conn[req[r].conn].tx = "open" /\ conn[req[r].conn].owner = r)
    /\ \A r \in Updates :
        (req[r].conn # 0 /\ req[r].pc = "ROLLBACK" /\ conn[req[r].conn].tx # "none")
            => conn[req[r].conn].owner = r
    /\ \A id \in BookIds :
        Committed[id] # NoBook => Committed[id].cnt = SumTo(Committed[id].r, 5)

C12_ScriptAtMostOnce ==
    mpc = "script" => cur > dbVersion

\* C13: when the schema_version relation exists but holds no row and the
\* version read itself succeeds, the engine treats the store as state 0: the
\* first script it executes is up1.
C13_EmptyRelationIsStateZero ==
    (mpc \in {"script", "done"} /\ relExists /\ ~hasRow /\ failKind = "none")
        => (executed # <<>> /\ executed[1] = 1)

(***************************************************************************)
(* The open book routes: properties                                        *)
(***************************************************************************)
\* the request has passed its checks and a statement of its own (not the row
\* count of validPage) has gone to the store
Issued(route) == sroute = route /\ spc \in {"query", "done"} /\ ssent >= 1

\* the request was turned away with status 400 and nothing went to the store
TurnedAway ==
    /\ spc = "done"
    /\ ssent = 0
    /\ Len(sresp) = 1
    /\ sresp[1].status = 400

\* C14: a non-keyword request to GET /books/search that supplies none of
\* isbn, title, author, min, max (whatever else it carries) is answered with
\* a rejection and sends no statement to the store.
C14_NoFilterRejected ==
    (/\ sroute = "search"
     /\ ~Truthy(sorig.q)
     /\ \A f \in {"isbn", "title", "author", "min", "max"} : sorig[f] = Absent)
        => (ssent = 0 /\ (spc = "done" => TurnedAway))

\* the least number of pages of the given size that hold count rows
PagesFor(count, size) ==
    CHOOSE m \in 0..count : m * size >= count /\ \A x \in 0..(m - 1) : x * size < count

\* C15: the page GET /books/all uses lies in [1, ceil(rowCount/pageSize)] and
\* the OFFSET it sends is (page - 1) * pageSize for the page and page size
\* after clamping; the OFFSET is never negative.
C15_PageClamped ==
    (Issued("all") /\ sstmt.op = "all")
        => LET size == squery.offset.n
               page == squery.page.n
               last == PagesFor(Cardinality(Rows), size)
           IN  /\ size >= 1
               /\ page >= 1
               /\ last >= 1 => page <= last
               /\ sstmt.values[2] = Num((page - 1) * size)
               /\ sstmt.values[2].n >= 0

\* n brought into [1, 5]
Into15(n) == IF n < 1 THEN 1 ELSE IF n > 5 THEN 5 ELSE n

\* the rating bound a request asks for: the clamped value of a numeric
\* bound, the default where none is supplied
AskedBound(val, default) == IF val.k = "num" THEN Into15(val.n) ELSE default

C17_KeywordPrecedence ==
    ((Issued("search") \/ Issued("keyword")) /\ Truthy(sorig.q))
        => /\ sstmt.text = composeKeyword(sorig).text
           /\ sstmt.values = <<sorig.q>>

\* C18: a keyword reaches query construction only if every character of it
\* is a letter, a digit, whitespace, a hyphen or a double quote; any other
\* character anywhere in it gets the request rejected with 400 before the
\* store is contacted.
C18_KeywordCharacters ==
    /\ Issued("keyword") => \A i \in 1..Len(sorig.q.s) : InClass(sorig.q.s[i])
    /\ (sroute = "keyword" /\ spc = "done" /\ sorig.q.k = "str"
        /\ \E i \in 1..Len(sorig.q.s) : ~InClass(sorig.q.s[i]))
            => TurnedAway

\* C19: the text of a statement sent to the store does not depend on the
\* values the request supplies: no piece of it is made of the characters of
\* a request value, the values travel in the bound parameter list.
C19_TextIndependentOfValues ==
    (spc \in {"count", "query", "done"} /\ ssent >= 1)
        => \A i \in 1..Len(sstmt.text) : sstmt.text[i].v = Absent

C22_OnlyTargetedBucket ==
    \A r \in Reqs : Succeeded(r) =>
        \A id \in BookIds :
            IF id \in Named(r)
            THEN /\ books[id].isbn = req[r].pre[id].isbn
                 /\ \A i \in RatingTypes :
                        books[id].r[i] =
                            IF i = req[r].q.ratingtype
                            THEN Target(r, req[r].pre[id])
                            ELSE req[r].pre[id].r[i]
            ELSE books[id] = req[r].pre[id]

C22_Witness ==
    \E r \in Reqs :
        /\ Succeeded(r)
        /\ req[r].q = [isbn |-> "A", ratingtype |-> 3, changetype |-> "increaseby",
                       value |-> 1]
        /\ req[r].pre[1].r = <<10, 20, 30, 40, 50>>
        /\ books[1].r = <<10, 20, 31, 40, 50>>
        /\ books[1].cnt = 151
        /\ books[2] # NoBook /\ books[2].isbn = "B"

\* C25: whenever no request is being served, every book row has rating_count
\* equal to the sum of its five buckets and rating_avg equal to the weighted
\* average recomputed from them.
C25_DerivedFieldsAlways ==
    (\A r \in Reqs : req[r].pc \in {"idle", "done"}) =>
        \A id \in BookIds : books[id] # NoBook =>
            /\ books[id].cnt = SumTo(books[id].r, 5)
            /\ books[id].cnt # 0 =>
                IsRounded(books[id].avg, WeightedTo(books[id].r, 5), books[id].cnt)

\* C30: a rating update that drives no bucket negative and leaves a matched
\* row with all five buckets at zero is answered with the generic storage
\* error, and every row keeps the values it had before the request.
C30_ZeroCountRolledBack ==
    \A r \in Updates :
        (/\ req[r].pc = "done"
         /\ \A id \in Named(r) : Target(r, req[r].pre[id]) >= 0
         /\ \E id \in Named(r) :
                \A i \in RatingTypes :
                    (IF i = req[r].q.ratingtype THEN Target(r, req[r].pre[id])
                     ELSE req[r].pre[id].r[i]) = 0)
            => (Rejected(r, MsgGeneric) /\ books = req[r].pre)

C30_Witness ==
    \E r \in Updates :
        /\ Rejected(r, MsgGeneric)
        /\ req[r].q = [isbn |-> "A", ratingtype |-> 1, changetype |-> "decreaseby",
                       value |-> 1]
        /\ req[r].pre[1] = [isbn |-> "A", r |-> <<1, 0, 0, 0, 0>>, cnt |-> 1, avg |-> 100]
        /\ books = req[r].pre

(***************************************************************************)
(* The open book routes: the composed search statement                     *)
(***************************************************************************)
\* the placeholder numbers of a statement text, in order of appearance
RECURSIVE PlaceholdersOf(_)
PlaceholdersOf(text) ==
    IF text = <<>> THEN <<>> ELSE Head(text).p \o PlaceholdersOf(Tail(text))

\* the values the supplied filters of query call for, in the order isbn,
\* title, author, rating range
ValuesFor(query) ==
    (IF Truthy(query.isbn) THEN <<query.isbn>> ELSE <<>>)
    \o (IF Truthy(query.title)
        THEN <<query.title,
               [query.title EXCEPT !.s =
                    <<IF query.title.s[1] = "t" THEN "T"
                      ELSE IF query.title.s[1] = "u" THEN "U"
                      ELSE query.title.s[1]>> \o Tail(query.title.s)],
               query.title>>
        ELSE <<>>)
    \o (IF Truthy(query.author)
        THEN <<Str(<<"%">> \o query.author.s \o <<"%">>)>> ELSE <<>>)
    \o (IF Truthy(query.min) \/ Truthy(query.max)
        THEN <<query.min, query.max>> ELSE <<>>)

Handled(r) == req[r].kind = "update" /\ (req[r].pc # "done" \/ req[r].err # "none"
                                         \/ req[r].matched # -1 \/ req[r].unhandled)

\* C21: the caller can tell the three failure kinds of a rating update
\* apart: an update that ended on a zero-row match is answered only with the
\* unknown-identifier error, one that ended on a negative bucket only with
\* the negative-result error, one that ended on a failed store call only
\* with the generic storage error, and one that ended on none of them only
\* with the acknowledgement.
C21_FailureKindsDistinct ==
    \A r \in Updates : (req[r].pc = "done" /\ Handled(r)) =>
        req[r].resp =
            << CASE req[r].err = "no books" ->
                        Response(400, "Update incomplete: No book with this ISBN.")
                 [] req[r].err = "negative number" ->
                        Response(400, "Update incomplete: Rating amount cannot be a negative number.")
                 [] req[r].err = "other" ->
                        Response(400, "Server or database error occurred.")
                 [] OTHER -> Response(200, "Book ratings updated successfully.") >>

\* C23: a rating update in which a store call failed ends with exactly one
\* response, an error, and with no rejection left unhandled.
C23_StoreFailuresAnswered ==
    \A r \in Updates : req[r].pc = "done" =>
        /\ ~req[r].unhandled
        /\ req[r].err = "other" =>
                (Len(req[r].resp) = 1 /\ req[r].resp[1].status >= 400)

\* C24: BEGIN and the bucket UPDATE of a rating update are issued only for a
\* request that carries a 13-digit numeric isbn, a rating type and a change
\* type of the enumerations and a numeric value; no statement is sent with
\* an undefined isbn or a NaN value.
C24_MalformedNeverReachStore ==
    \A r \in Updates :
        (req[r].pc \in {"BEGIN", "UPDATE"} /\ req[r].raw # NoRequest.raw) =>
            /\ req[r].raw.isbn.k = "isbn"
            /\ req[r].raw.ratingtype.k = "str"
            /\ req[r].raw.changetype.k = "str"
            /\ req[r].raw.value.k = "num"
            /\ ~req[r].nan

\* C27: a rating update has sent the acknowledgement only if its COMMIT has
\* completed successfully, and once it has ended it has sent exactly one
\* response.
C27_AckAfterCommit ==
    \A r \in Updates :
        /\ (\E i \in 1..Len(req[r].resp) : req[r].resp[i].status = 200)
                => (req[r].pc = "done" /\ req[r].err = "none")
        /\ req[r].pc = "done" => Len(req[r].resp) = 1

(***************************************************************************)
(* Deletion: properties                                                    *)
(***************************************************************************)
Deletes == {r \in Reqs : req[r].kind \in {"deleteIsbn", "deleteRange"}}

\* the books a delete request names: those of its ISBN or of its id range
NamedBy(rq, b) ==
    IF rq.kind = "deleteIsbn" THEN Matching(b, rq.q.isbn)
    ELSE {id \in BookIds : b[id] # NoBook /\ rq.range[1] <= id /\ id <= rq.range[2]}

\* C26: in every state no book_author row references a book that does not
\* exist, and at the moment a delete request is answered with success no
\* book of its ISBN (or of its id range) remains.
C26_DeleteCascades ==
    /\ [](\A id \in bookAuthor : books[id] # NoBook)
    /\ [][\A r \in Reqs :
            (/\ req'[r].kind \in {"deleteIsbn", "deleteRange"}
             /\ req[r].kind = req'[r].kind
             /\ req[r].resp = <<>>
             /\ req'[r].resp # <<>>
             /\ req'[r].resp[1].status = 200)
                => NamedBy(req[r], books') = {}]_vars

C26_Witness ==
    \E r \in Deletes : \E a \in Reqs :
        /\ req[r].kind = "deleteIsbn"
        /\ req[r].pc = "run"
        /\ req[r].resp # <<>> /\ req[r].resp[1].status = 200
        /\ req[a].kind = "addBook" /\ req[a].pc = "done"
        /\ req[a].resp # <<>> /\ req[a].resp[1].status = 201
        /\ req[a].body.isbn = req[r].q.isbn
        /\ r < a
        /\ Matching(books, req[r].q.isbn) = {}
        /\ bookAuthor = {}

\* C28: a deleteIsbn request calls res.send at most once, leaves no
\* rejection unhandled, and has sent exactly one response when it has ended.
C28_DeleteIsbnOneResponse ==
    \A r \in Deletes : req[r].kind = "deleteIsbn" =>
        /\ req[r].sends <= 1
        /\ ~req[r].unhandled
        /\ req[r].pc = "done" => Len(req[r].resp) = 1

====
